---- MODULE Spec2Model ----
(***************************************************************************)
(* Model of src/lib.rs: the ExponentialBackoff policy and its retry loop.  *)
(*                                                                         *)
(* f32 values (constant, coefficient, exponent) are held in HALVES: the    *)
(* integer h stands for the f32 value h/2, which f32 represents exactly.   *)
(* backoff_time is held in halves rounded down, which loses nothing that   *)
(* the cast to whole milliseconds keeps.  A Result<bool, bool> is one of   *)
(* the four strings of Results.                                            *)
(***************************************************************************)
EXTENDS Integers, Sequences, FiniteSets, TLC

\* ---- bounds of the model ----
MaxRetriesBound == 8    \* max_retries ranges over 1..MaxRetriesBound
MaxHalves == 3          \* constant, coefficient range over 0/2 .. MaxHalves/2
MaxExponent == 4        \* exponent ranges over 0/2 .. MaxExponent/2
MaxVecLen == 8          \* retry_until_true is given vectors of length 0..MaxVecLen
MaxSmallRetries == 3    \* max_retries of the policies of InitSmall
MaxAttempts == 12       \* attempts of one call that SpecLive follows
MaxEarlierCalls == 2    \* calls of retry made on a policy before the one observed

\* ---- program constants ----
U8Modulus == 256        \* retry_count: u8

VARIABLES
    max_retries,    \* self.max_retries
    constant,       \* self.constant (halves)
    coefficient,    \* self.coefficient (halves)
    exponent,       \* self.exponent (halves)
    should_retry,   \* self.should_retry, a function of the result
    pc,             \* position of the one retry call
    retry_count,    \* local of retry
    result,         \* local of the loop body, "none" outside it
    returned,       \* value retry returned, "none" before it returns
    v,              \* the vector captured by the closure of retry_until_true
    queued,         \* the vector retry_until_true was called with
    invocations,    \* number of calls of retriable_block so far
    lastResult,     \* what the latest call of retriable_block returned
    allErr,         \* every call of retriable_block so far returned Err
    srLog,          \* calls of should_retry: attempt number and answer
    sleeps,         \* durations passed to sleep, in whole milliseconds
    events,         \* order of the calls: "op", "sr", "sleep"
    panic,          \* where a panic was raised: "operation", "should_retry",
                    \* "overflow" (the increment of retry_count), or "none"
    history,        \* how the earlier calls of retry on this policy ended
    other           \* a second call of retry running on the same policy

policy == <<max_retries, constant, coefficient, exponent, should_retry>>
vars == <<max_retries, constant, coefficient, exponent, should_retry, pc,
          retry_count, result, returned, v, queued, invocations, lastResult,
          allErr, srLog, sleeps, events, panic, history, other>>
aux == <<panic, history, other>>
mainCall == <<pc, retry_count, result, returned, invocations, lastResult,
              allErr, srLog, sleeps, events>>

\* ---- Result<bool, bool> ----
OkResults == {"Ok(true)", "Ok(false)"}
ErrResults == {"Err(true)", "Err(false)"}
Results == OkResults \cup ErrResults
None == "none"

IsOk(r) == r \in OkResults

\* the closure |result| !result.is_ok() of retry_until_true
RetryWhileError == [r \in Results |-> ~IsOk(r)]

RECURSIVE Pow(_, _)
Pow(n, b) == IF b = 0 THEN 1 ELSE n * Pow(n, b - 1)

\* the largest r in lo..hi with r * r <= x
RECURSIVE SqrtSearch(_, _, _)
SqrtSearch(x, lo, hi) ==
    IF lo = hi THEN lo
    ELSE LET mid == (lo + hi + 1) \div 2
         IN IF mid * mid <= x THEN SqrtSearch(x, mid, hi)
                              ELSE SqrtSearch(x, lo, mid - 1)

\* the whole part of the square root of x (x < 2^31)
ISqrt(x) == SqrtSearch(x, 0, IF x > 46340 THEN 46340 ELSE x)

\* self.constant + self.coefficient * (retry_count as f32).powf(self.exponent),
\* in halves rounded down: with the exponent b/2, a * rc^(b/2) is the square
\* root of a^2 * rc^b
BackoffPrev(c, a, b, rc) == c + ISqrt(a * a * Pow(rc - 1, b))
\* (a negative exponent divides: a * rc^(b/2) is the square root of
\* a^2 / rc^(-b))
BackoffTime(c, a, b, rc) ==
    c + (IF b >= 0 THEN ISqrt(a * a * Pow(rc, b))
                   ELSE ISqrt((a * a) \div Pow(rc, 0 - b)))

\* backoff_time as u64: the fraction is dropped, a negative value gives 0
\* (the saturating float-to-integer cast)
AsU64(h) == IF h < 0 THEN 0 ELSE h \div 2

\* retry_count == self.max_retries
CapNever(rc, m) == FALSE
CapOneLate(rc, m) == rc = m + 1
CapOneEarly(rc, m) == rc + 1 = m
CapAtLeast(rc, m) == rc >= m
CapReached(rc, m) == rc = m

\* the right operand of || is evaluated only when the left one is false
CallsAlways(rc, m) == TRUE
CallsShouldRetry(rc, m) == ~CapReached(rc, m)

\* !(self.should_retry)(&result)
StopNever(ans) == FALSE
StopOn(ans) == ~ans

\* return result
ReturnOwnError(res) == "Err(false)"
ReturnValue(res) == res

\* ---- construction ----
Halves == 0..MaxHalves
Predicates == [Results -> BOOLEAN]

\* ExponentialBackoff::new(m, c, a, b, p)
New(m, c, a, b, p) ==
    /\ max_retries = m
    /\ constant = c
    /\ coefficient = a
    /\ exponent = b
    /\ should_retry = p

\* the locals of a call of retry that has not started
NoCall == [pc |-> "idle", retry_count |-> 0, result |-> None, returned |-> None,
           invocations |-> 0, lastResult |-> None, srLog |-> << >>,
           sleeps |-> << >>]

Fresh ==
    /\ pc = "idle"
    /\ retry_count = 0
    /\ result = None
    /\ returned = None
    /\ invocations = 0
    /\ lastResult = None
    /\ allErr = TRUE
    /\ srLog = << >>
    /\ sleeps = << >>
    /\ events = << >>
    /\ panic = "none"
    /\ history = << >>
    /\ other = NoCall

Init ==
    /\ \E m \in 1..MaxRetriesBound, c \in Halves, a \in Halves,
          b \in 0..MaxExponent, p \in Predicates : New(m, c, a, b, p)
    /\ v = << >>
    /\ queued = << >>
    /\ Fresh

\* ExponentialBackoff::new_with_defaults(p): new(7, 0.0, 1000.0, 0.5, p)
NewWithDefaultsExponent15(p) == New(7, 0, 2000, 3, p)
NewWithDefaults(p) == New(7, 0, 2000, 1, p)

InitDefaults ==
    /\ \E p \in Predicates : NewWithDefaults(p)
    /\ v = << >>
    /\ queued = << >>
    /\ Fresh

\* policies with few attempts and the delays 0.5 + 1.0 * n^0.5 ms
InitSmall ==
    /\ \E m \in 1..MaxSmallRetries, p \in Predicates : New(m, 1, 2, 1, p)
    /\ v = << >>
    /\ queued = << >>
    /\ Fresh

\* every max_retries a u8 holds, sensible delays (0.5 + 1.0 * n^0.5 ms) and
\* nonsensical ones (-1.5 + 1.0 * n^-1.0 ms)
WidePredicates == {[r \in Results |-> TRUE], RetryWhileError}
WideDelays == {<<1, 2, 1>>, <<0 - 3, 2, 0 - 2>>}

InitU8 ==
    /\ \E m \in 0..(U8Modulus - 1), d \in WideDelays, p \in WidePredicates :
           New(m, d[1], d[2], d[3], p)
    /\ v = << >>
    /\ queued = << >>
    /\ Fresh

\* every max_retries in 1..MaxRetriesBound and every predicate, with the
\* delays 0.5 + 1.0 * n^0.5 ms
InitLive ==
    /\ \E m \in 1..MaxRetriesBound, p \in Predicates : New(m, 1, 2, 1, p)
    /\ v = << >>
    /\ queued = << >>
    /\ Fresh

BoolVecs == UNION {[1..n -> BOOLEAN] : n \in 0..MaxVecLen}

\* retry_until_true(v): new(7, 0.0, 1.0, 2.0, |result| !result.is_ok())
InitTest ==
    /\ New(7, 0, 2, 4, RetryWhileError)
    /\ v \in BoolVecs
    /\ queued = v
    /\ Fresh

\* ---- retry ----
\* let mut retry_count: u8 = 0;
RetryCall ==
    /\ pc = "idle"
    /\ retry_count' = 0
    /\ pc' = "invoke"
    /\ UNCHANGED <<policy, result, returned, v, queued, invocations,
                   lastResult, allErr, srLog, sleeps, events, aux>>

\* retry_count += 1 where the build checks overflow: the increment of 255 panics
Overflow ==
    /\ pc = "invoke"
    /\ retry_count + 1 = U8Modulus
    /\ panic' = "overflow"
    /\ pc' = "panicked"
    /\ UNCHANGED <<policy, retry_count, result, returned, v, queued,
                   invocations, lastResult, allErr, srLog, sleeps, events,
                   history, other>>

\* retry_count += 1 (wrapping where the build does not check overflow);
\* let result = retriable_block();   with the block returning r
Attempt(r) ==
    /\ retry_count' = (retry_count + 1) % U8Modulus
    /\ result' = r
    /\ invocations' = invocations + 1
    /\ lastResult' = r
    /\ allErr' = (allErr /\ ~IsOk(r))
    /\ events' = Append(events, "op")
    /\ pc' = "decide"
    /\ UNCHANGED <<policy, returned, srLog, sleeps, aux>>

\* an arbitrary retriable_block
Invoke ==
    /\ pc = "invoke"
    /\ \E r \in Results : Attempt(r)
    /\ UNCHANGED <<v, queued>>

\* the closure of retry_until_true: match v.pop() { ... }
Popped(vec) ==
    IF vec = << >> THEN "Err(false)"
    ELSE IF vec[Len(vec)] THEN "Ok(true)" ELSE "Err(false)"

InvokeTest ==
    /\ pc = "invoke"
    /\ Attempt(Popped(v))
    /\ v' = IF v = << >> THEN v ELSE SubSeq(v, 1, Len(v) - 1)
    /\ UNCHANGED queued

\* if retry_count == self.max_retries || !(self.should_retry)(&result) { return result; }
Decide ==
    /\ pc = "decide"
    /\ LET called == CallsShouldRetry(retry_count, max_retries)
           ans == should_retry[result]
           stop == CapReached(retry_count, max_retries) \/ (called /\ StopOn(ans))
       IN /\ srLog' = IF called
                      THEN Append(srLog, [n |-> retry_count, ans |-> ans])
                      ELSE srLog
          /\ events' = IF called THEN Append(events, "sr") ELSE events
          /\ IF stop
             THEN /\ returned' = ReturnValue(result)
                  /\ pc' = "done"
             ELSE /\ returned' = returned
                  /\ pc' = "sleep"
    /\ result' = IF pc' = "done" THEN None ELSE result
    /\ UNCHANGED <<policy, retry_count, v, queued, invocations, lastResult,
                   allErr, sleeps, aux>>

\* where a panic raised inside retriable_block or should_retry leaves retry:
\* nothing in retry catches it
AfterPanicCaught == "sleep"
AfterPanic == "panicked"

\* retry_count += 1; retriable_block() panics
InvokePanics ==
    /\ pc = "invoke"
    /\ retry_count' = (retry_count + 1) % U8Modulus
    /\ invocations' = invocations + 1
    /\ events' = Append(events, "op")
    /\ panic' = "operation"
    /\ pc' = AfterPanic
    /\ UNCHANGED <<policy, result, returned, v, queued, lastResult, allErr,
                   srLog, sleeps, history, other>>

\* retry_count != self.max_retries and (self.should_retry)(&result) panics
DecidePanics ==
    /\ pc = "decide"
    /\ CallsShouldRetry(retry_count, max_retries)
    /\ events' = Append(events, "sr")
    /\ panic' = "should_retry"
    /\ pc' = AfterPanic
    /\ result' = None
    /\ UNCHANGED <<policy, retry_count, returned, v, queued, invocations,
                   lastResult, allErr, srLog, sleeps, history, other>>

\* else { let backoff_time = ...; sleep(Duration::from_millis(backoff_time as u64)); }
SleepSkipped ==
    /\ pc = "sleep"
    /\ result' = None
    /\ pc' = "invoke"
    /\ UNCHANGED <<policy, retry_count, returned, v, queued, invocations,
                   lastResult, allErr, srLog, sleeps, events, aux>>

Sleep ==
    /\ pc = "sleep"
    /\ LET backoff_time == BackoffTime(constant, coefficient, exponent, retry_count)
       IN sleeps' = Append(sleeps, AsU64(backoff_time))
    /\ events' = Append(events, "sleep")
    /\ result' = None
    /\ pc' = "invoke"
    /\ UNCHANGED <<policy, retry_count, returned, v, queued, invocations,
                   lastResult, allErr, srLog, aux>>

Next == RetryCall \/ Invoke \/ Decide \/ Sleep
Spec == Init /\ [][Next]_vars

SpecDefaults == InitDefaults /\ [][Next]_vars

\* a further call of retry on the same policy, once the earlier one has
\* returned or panicked: let mut retry_count: u8 = 0;
RetryAgainKeepsCount ==
    /\ pc \in {"done", "panicked"}
    /\ Len(history) < MaxEarlierCalls
    /\ history' = Append(history, [pc |-> pc, invocations |-> invocations,
                                   returned |-> returned])
    /\ pc' = "invoke"
    /\ result' = None
    /\ returned' = None
    /\ invocations' = 0
    /\ lastResult' = None
    /\ allErr' = TRUE
    /\ srLog' = << >>
    /\ sleeps' = << >>
    /\ events' = << >>
    /\ panic' = "none"
    /\ UNCHANGED <<policy, retry_count, v, queued, other>>

RetryAgain ==
    /\ pc \in {"done", "panicked"}
    /\ Len(history) < MaxEarlierCalls
    /\ history' = Append(history, [pc |-> pc, invocations |-> invocations,
                                   returned |-> returned])
    /\ retry_count' = 0
    /\ pc' = "invoke"
    /\ result' = None
    /\ returned' = None
    /\ invocations' = 0
    /\ lastResult' = None
    /\ allErr' = TRUE
    /\ srLog' = << >>
    /\ sleeps' = << >>
    /\ events' = << >>
    /\ panic' = "none"
    /\ UNCHANGED <<policy, v, queued, other>>

\* one policy used for several calls of retry, one after the other
NextReuse ==
    \/ RetryCall
    \/ Invoke
    \/ InvokePanics
    \/ Decide
    \/ DecidePanics
    \/ Sleep
    \/ RetryAgain
SpecReuse == InitSmall /\ [][NextReuse]_vars

\* ---- a second call of retry on the same policy, with locals of its own ----
\* let mut retry_count: u8 = 0;
OtherCall ==
    /\ other.pc = "idle"
    /\ other' = [other EXCEPT !.pc = "invoke", !.retry_count = 0]
    /\ UNCHANGED <<policy, mainCall, v, queued, panic, history>>

\* retry_count += 1; let result = retriable_block();
OtherInvokeShared ==
    /\ other.pc = "invoke"
    /\ retry_count' = (retry_count + 1) % U8Modulus
    /\ \E r \in Results :
           other' = [other EXCEPT !.retry_count = (retry_count + 1) % U8Modulus,
                                  !.result = r,
                                  !.invocations = @ + 1,
                                  !.lastResult = r,
                                  !.pc = "decide"]
    /\ UNCHANGED <<policy, pc, result, returned, invocations, lastResult,
                   allErr, srLog, sleeps, events, v, queued, panic, history>>

OtherInvoke ==
    /\ other.pc = "invoke"
    /\ \E r \in Results :
           other' = [other EXCEPT !.retry_count = (@ + 1) % U8Modulus,
                                  !.result = r,
                                  !.invocations = @ + 1,
                                  !.lastResult = r,
                                  !.pc = "decide"]
    /\ UNCHANGED <<policy, mainCall, v, queued, panic, history>>

\* if retry_count == self.max_retries || !(self.should_retry)(&result) { return result; }
OtherDecide ==
    /\ other.pc = "decide"
    /\ LET called == CallsShouldRetry(other.retry_count, max_retries)
           ans == should_retry[other.result]
           stop == \/ CapReached(other.retry_count, max_retries)
                   \/ (called /\ StopOn(ans))
           logged == IF called
                     THEN Append(other.srLog,
                                 [n |-> other.retry_count, ans |-> ans])
                     ELSE other.srLog
       IN other' = IF stop
                   THEN [other EXCEPT !.srLog = logged,
                                      !.returned = ReturnValue(other.result),
                                      !.result = None,
                                      !.pc = "done"]
                   ELSE [other EXCEPT !.srLog = logged, !.pc = "sleep"]
    /\ UNCHANGED <<policy, mainCall, v, queued, panic, history>>

\* else { let backoff_time = ...; sleep(Duration::from_millis(backoff_time as u64)); }
OtherSleep ==
    /\ other.pc = "sleep"
    /\ LET backoff_time ==
               BackoffTime(constant, coefficient, exponent, other.retry_count)
       IN other' = [other EXCEPT !.sleeps = Append(@, AsU64(backoff_time)),
                                 !.result = None,
                                 !.pc = "invoke"]
    /\ UNCHANGED <<policy, mainCall, v, queued, panic, history>>

\* two calls of retry interleaved on one policy
NextTwo ==
    \/ RetryCall
    \/ Invoke
    \/ Decide
    \/ Sleep
    \/ OtherCall
    \/ OtherInvoke
    \/ OtherDecide
    \/ OtherSleep
SpecTwo == InitSmall /\ [][NextTwo]_vars

\* a call in which every invocation, every call of should_retry and every
\* sleep returns; the call is followed for at most MaxAttempts attempts
InvokeBounded ==
    /\ invocations < MaxAttempts
    /\ Invoke

NextLive == RetryCall \/ InvokeBounded \/ Decide \/ Sleep
SpecLive == InitLive /\ [][NextLive]_vars /\ WF_vars(NextLive)

\* the operation and the predicate may panic
NextPanic == RetryCall \/ Invoke \/ InvokePanics \/ Decide \/ DecidePanics \/ Sleep
SpecPanic == InitSmall /\ [][NextPanic]_vars

\* every u8 value of max_retries, 0 included
NextU8 == RetryCall \/ Overflow \/ Invoke \/ Decide \/ Sleep
SpecU8 == InitU8 /\ [][NextU8]_vars

NextTest == RetryCall \/ InvokeTest \/ Decide \/ Sleep
SpecTest == InitTest /\ [][NextTest]_vars

TypeOK ==
    /\ max_retries \in 0..(U8Modulus - 1)
    /\ retry_count \in 0..(U8Modulus - 1)
    /\ pc \in {"idle", "invoke", "decide", "sleep", "done", "panicked"}
    /\ panic \in {"none", "operation", "should_retry", "overflow"}
    /\ result \in Results \cup {None}
    /\ returned \in Results \cup {None}
    /\ lastResult \in Results \cup {None}
    /\ invocations \in Nat

\* ---- properties of retry ----
Last(s) == s[Len(s)]
AttemptsAndSleeps == SelectSeq(events, LAMBDA e : e \in {"op", "sleep"})
AlwaysTrue == [r \in Results |-> TRUE]

\* C1: with max_retries = m >= 1 one call of retry invokes the operation at
\* most m times, and at least once by the time it returns.
C1_InvokedBetweenOneAndMax ==
    max_retries >= 1 =>
        /\ invocations <= max_retries
        /\ (pc = "done" => invocations >= 1)

C1_Witness ==
    /\ pc = "done"
    /\ max_retries > 1
    /\ invocations = max_retries

\* C2: once should_retry has answered false, on the result of attempt k after
\* answering true on every earlier attempt, retry has returned that k-th
\* result, the operation has been invoked exactly k times, and no sleep
\* follows the k-th invocation.
C2_StopsOnFirstRejection ==
    (srLog # << >> /\ ~Last(srLog).ans) =>
        LET k == Len(srLog) IN
        /\ \A i \in 1..(k - 1) : srLog[i].ans
        /\ Last(srLog).n = k
        /\ k <= max_retries
        /\ pc = "done"
        /\ returned = lastResult
        /\ invocations = k
        /\ Len(sleeps) = k - 1
        /\ Last(events) = "sr"

C2_Witness ==
    /\ pc = "done"
    /\ Len(srLog) > 1
    /\ ~Last(srLog).ans
    /\ invocations < max_retries

\* C3: once the m-th invocation (m = max_retries) has been judged, retry has
\* returned the m-th result, should_retry having answered true on attempts
\* 1..m-1 and not having been asked about the m-th result.
C3_LastAttemptReturned ==
    (invocations = max_retries /\ pc # "decide") =>
        /\ pc = "done"
        /\ returned = lastResult
        /\ Len(srLog) = max_retries - 1
        /\ \A i \in 1..Len(srLog) : srLog[i].ans /\ srLog[i].n = i

C3_Witness ==
    /\ pc = "done"
    /\ max_retries > 1
    /\ invocations = max_retries
    /\ should_retry[returned]

\* C4: should_retry is called at most max_retries - 1 times and never on the
\* result of the attempt whose number is max_retries.
C4_PredicateSkippedAtCap ==
    max_retries >= 1 =>
        /\ Len(srLog) <= max_retries - 1
        /\ \A i \in 1..Len(srLog) : srLog[i].n # max_retries

C4_Witness ==
    /\ pc = "done"
    /\ max_retries > 1
    /\ invocations = max_retries
    /\ Len(srLog) = max_retries - 1

\* C5: what retry returns is the result of the latest invocation of the
\* operation, unchanged, both when the cap stopped it and when the predicate
\* did.
C5_ReturnsLastResult ==
    pc = "done" =>
        /\ returned \in Results
        /\ returned = lastResult

C5_Witness ==
    /\ pc = "done"
    /\ invocations > 1
    /\ invocations < max_retries
    /\ returned = "Ok(true)"

\* C6: when every invocation fails and should_retry is "retry while error",
\* retry returns an error after exactly max_retries invocations.
C6_AlwaysFailingExhausts ==
    (pc = "done" /\ allErr /\ should_retry = RetryWhileError) =>
        /\ invocations = max_retries
        /\ returned \in ErrResults

C6_Witness ==
    /\ pc = "done"
    /\ allErr
    /\ should_retry = RetryWhileError
    /\ max_retries = 8
    /\ invocations = 8
    /\ returned \in ErrResults

\* C7: retry_until_true(vec![false, false, true]) makes the operation fail,
\* fail, then succeed: retry returns Ok after exactly 3 invocations.
C7_SucceedsAfterTwoRetries ==
    (pc = "done" /\ queued = <<FALSE, FALSE, TRUE>>) =>
        /\ invocations = 3
        /\ IsOk(returned)

\* C8: with max_retries = 1 the operation is invoked once, its result is
\* returned, should_retry is never called and nothing sleeps.
C8_SingleAttempt ==
    max_retries = 1 =>
        /\ invocations <= 1
        /\ srLog = << >>
        /\ sleeps = << >>
        /\ pc \notin {"sleep"}
        /\ (invocations = 1 /\ pc # "decide" => pc = "done" /\ returned = lastResult)

C8_Witness ==
    /\ pc = "done"
    /\ max_retries = 1
    /\ invocations = 1
    /\ should_retry = AlwaysTrue
    /\ returned \in ErrResults

\* C9: invocations and sleeps alternate, starting with an invocation; when
\* retry has returned the last of them is an invocation, so k invocations
\* come with exactly k - 1 sleeps.
C9_SleepsAlternateWithAttempts ==
    /\ \A i \in 1..Len(AttemptsAndSleeps) :
           AttemptsAndSleeps[i] = IF i % 2 = 1 THEN "op" ELSE "sleep"
    /\ Len(AttemptsAndSleeps) = invocations + Len(sleeps)
    /\ (pc = "done" =>
           /\ Last(AttemptsAndSleeps) = "op"
           /\ Len(sleeps) = invocations - 1)

C9_Witness ==
    /\ pc = "done"
    /\ invocations = 3
    /\ Len(sleeps) = 2

\* C10: the sleep before attempt k (k > 1) lasts constant + coefficient *
\* (k-1)^exponent milliseconds, the fraction of a millisecond dropped
\* (constant, coefficient and exponent in halves, non-negative): with d the
\* milliseconds slept, 2d - constant <= coefficient * (k-1)^(exponent/2)
\* < 2d + 2 - constant, compared here by their squares.
C10_DelayFormula ==
    \A k \in 2..(Len(sleeps) + 1) :
        LET d == sleeps[k - 1]
            low == 2 * d - constant
            high == 2 * d + 2 - constant
            square == coefficient * coefficient * Pow(k - 1, exponent)
        IN /\ d >= 0
           /\ (low <= 0 \/ low * low <= square)
           /\ high > 0
           /\ square < high * high

C10_Witness ==
    /\ Len(sleeps) >= 3
    /\ constant = 1
    /\ coefficient = 3
    /\ exponent = 4
    /\ sleeps[3] = 14

RECURSIVE SumSeq(_)
SumSeq(s) == IF s = << >> THEN 0 ELSE s[1] + SumSeq(Tail(s))

\* the milliseconds the formula a*n^b + c gives for attempt number n
DelayOfAttempt(n) == AsU64(BackoffTime(constant, coefficient, exponent, n))

RECURSIVE SumOfDelays(_, _)
SumOfDelays(from, to) ==
    IF from > to THEN 0 ELSE DelayOfAttempt(from) + SumOfDelays(from + 1, to)

\* C11: the time a call of retry that uses all its attempts spends waiting is
\* the sum, for n from 1 to max_retries, of coefficient * n^exponent + constant.
C11_TotalWaitIsSumToMax ==
    (pc = "done" /\ invocations = max_retries) =>
        SumSeq(sleeps) = SumOfDelays(1, max_retries)

\* floor(1000 * sqrt(n)) for n = 1..6
DefaultDelays == <<1000, 1414, 1732, 2000, 2236, 2449>>

C13_DefaultTotalWait61s ==
    (pc = "done" /\ invocations = max_retries) =>
        /\ 60000 <= SumSeq(sleeps)
        /\ SumSeq(sleeps) <= 62000

\* C16: whatever the arguments given to new (a negative exponent, a negative
\* computed delay, max_retries = 0), retry does not crash by itself: with an
\* operation and a predicate that do not panic, no panic comes out of retry.
C16_NeverCrashesByItself ==
    /\ panic = "none"
    /\ pc # "panicked"

\* C17: once the operation or should_retry has panicked, the panic has left
\* retry (nothing is returned), and from then on the operation is not
\* invoked, should_retry is not called and nothing sleeps.
C17_PanicPropagates ==
    /\ [](panic # "none" => pc = "panicked" /\ returned = None)
    /\ [][panic # "none" =>
            UNCHANGED <<invocations, srLog, sleeps, events, retry_count, pc>>]_vars

C17_Witness ==
    /\ pc = "panicked"
    /\ panic = "should_retry"
    /\ invocations = 2
    /\ Len(sleeps) = 1

\* C19: for max_retries = m in 1..255, once an attempt has been made
\* 1 <= retry_count <= m and retry_count is the number of invocations made,
\* and the increment of retry_count never overflows.
C19_CounterWithinCap ==
    max_retries >= 1 =>
        /\ panic # "overflow"
        /\ retry_count = invocations
        /\ retry_count <= max_retries
        /\ (pc \notin {"idle", "invoke"} => retry_count >= 1)

C19_Witness ==
    /\ max_retries = U8Modulus - 1
    /\ retry_count = U8Modulus - 1
    /\ invocations = U8Modulus - 1
    /\ pc = "done"

\* C20: with max_retries = 0 the cap stops none of the first 255 attempts:
\* should_retry is asked about each of them, retry returns on attempt k <= 255
\* exactly when it answers false on the k-th result, and after 255 answers
\* true the increment of retry_count overflows: it panics, or wraps to 0.
C20_ZeroCapRunsToOverflow ==
    max_retries = 0 =>
        /\ (pc \in {"done", "panicked"} => invocations >= 1)
        /\ \A i \in 1..Len(srLog) : srLog[i].n = i
        /\ \A i \in 1..(Len(srLog) - 1) : srLog[i].ans
        /\ Len(srLog) <= U8Modulus - 1
        /\ (invocations \in 1..(U8Modulus - 1) /\ pc \in {"sleep", "invoke", "done"} =>
               /\ Len(srLog) = invocations
               /\ retry_count = invocations
               /\ (pc = "done" <=> ~Last(srLog).ans)
               /\ (pc = "done" => returned = lastResult))
        /\ (panic = "overflow" =>
               /\ pc = "panicked"
               /\ invocations = U8Modulus - 1
               /\ Len(srLog) = U8Modulus - 1
               /\ Last(srLog).ans)
        /\ (invocations > U8Modulus - 1 =>
               /\ invocations = U8Modulus
               /\ retry_count = 0
               /\ Len(srLog) = U8Modulus - 1
               /\ Last(srLog).ans
               /\ pc \in {"decide", "done"})
        /\ (pc = "invoke" /\ invocations = U8Modulus - 1 =>
               retry_count + 1 = U8Modulus)

C20_Witness ==
    /\ max_retries = 0
    /\ pc = "done"
    /\ retry_count = 0
    /\ invocations = U8Modulus
    /\ Len(sleeps) = U8Modulus - 1

\* C15: no step of retry changes the policy; a later call of retry on the same
\* policy starts with retry_count = 0 and no attempt made, and whatever way the
\* earlier call ended it again makes between 1 and max_retries invocations
\* and returns the result of its own last one.
C15_PolicyUnchangedAndReusable ==
    /\ [][policy' = policy]_vars
    /\ [][history' # history =>
            retry_count' = 0 /\ invocations' = 0 /\ pc' = "invoke"]_vars
    /\ [](history # << >> =>
            /\ invocations <= max_retries
            /\ retry_count = invocations
            /\ (pc = "done" =>
                   /\ invocations >= 1
                   /\ returned = lastResult
                   /\ (invocations = max_retries \/ ~should_retry[returned])))

C15_Witness ==
    /\ history # << >>
    /\ history[1].pc = "done"
    /\ history[1].invocations < max_retries
    /\ pc = "done"
    /\ invocations = max_retries
    /\ max_retries > 1

\* what a call of retry with the locals c does when it runs alone on a policy
\* with max_retries = m: its counter counts its own invocations, should_retry
\* has answered true on all but possibly the last of them, and it returns its
\* own last result, at the first false answer or at attempt m
RunsAsAlone(c, m) ==
    /\ c.retry_count = c.invocations
    /\ c.invocations <= m
    /\ Len(c.sleeps) <= c.invocations
    /\ \A i \in 1..Len(c.srLog) : c.srLog[i].n = i
    /\ \A i \in 1..(Len(c.srLog) - 1) : c.srLog[i].ans
    /\ (c.pc = "done" =>
           /\ c.invocations >= 1
           /\ c.returned = c.lastResult
           /\ Len(c.sleeps) = c.invocations - 1
           /\ IF c.invocations = m
              THEN /\ Len(c.srLog) = m - 1
                   /\ \A i \in 1..Len(c.srLog) : c.srLog[i].ans
              ELSE /\ Len(c.srLog) = c.invocations
                   /\ ~c.srLog[Len(c.srLog)].ans)

MainCallLocals ==
    [pc |-> pc, retry_count |-> retry_count, result |-> result,
     returned |-> returned, invocations |-> invocations,
     lastResult |-> lastResult, srLog |-> srLog, sleeps |-> sleeps]

\* C14: two calls of retry interleaved on one policy do not interfere: a step
\* of one leaves the locals of the other alone, and in every interleaving each
\* makes the invocations and returns the result it would make and return alone.
C14_ConcurrentCallsIndependent ==
    /\ [][other' # other => UNCHANGED mainCall]_vars
    /\ [][mainCall' # mainCall => other' = other]_vars
    /\ [](RunsAsAlone(MainCallLocals, max_retries))
    /\ [](RunsAsAlone(other, max_retries))

C14_Witness ==
    /\ pc = "done"
    /\ other.pc = "done"
    /\ invocations = 3
    /\ other.invocations = 1
    /\ returned # other.returned

\* C18: for max_retries >= 1, when every invocation of the operation, every
\* call of should_retry and every sleep returns, retry eventually returns.
C18_RetryReturns == <>(pc = "done")

C18_Witness ==
    /\ pc = "done"
    /\ should_retry = AlwaysTrue
    /\ max_retries = MaxRetriesBound
    /\ invocations = MaxRetriesBound
    /\ allErr

====
